---------------------------- MODULE Spec2Model ----------------------------
(***************************************************************************)
(* Model of src/demo.py: the Replicate prediction client                   *)
(* (run_replicate_model), the LangGraph workflow router -> [command] ->    *)
(* answer, and the Flask handler chat() that runs the graph and derives    *)
(* the response fields.                                                    *)
(*                                                                         *)
(* Python str values that the program parses, builds or concatenates are   *)
(* sequences of lexemes (tokens); json.loads and json.dumps are a parser   *)
(* and a printer over them.  Decoded JSON values are records of one        *)
(* uniform shape, tagged by kind.                                          *)
(***************************************************************************)
EXTENDS Integers, Sequences, FiniteSets, TLC

(***************************************************************************)
(* Text: lexemes.                                                          *)
(***************************************************************************)
\* punctuation of JSON: { } [ ] : ,
P(c) == [k |-> "p", s |-> c, n |-> 0]
\* the literals true, false, null
Lit(c) == [k |-> "lit", s |-> c, n |-> 0]
\* an integer literal
NumT(i) == [k |-> "num", s |-> "", n |-> i]
\* a double-quoted string literal with content c
StrT(c) == [k |-> "str", s |-> c, n |-> 0]
\* whitespace (a blank or a line break)
WS(c) == [k |-> "ws", s |-> c, n |-> 0]
\* any other run of characters (prose, a markdown fence, a marker)
Word(c) == [k |-> "word", s |-> c, n |-> 0]

(***************************************************************************)
(* Decoded JSON values (what json.loads returns, what a dict holds).       *)
(***************************************************************************)
JNull == [k |-> "null", n |-> 0, s |-> "", keys |-> <<>>, items |-> <<>>]
JBool(b) == [k |-> IF b THEN "true" ELSE "false", n |-> 0, s |-> "", keys |-> <<>>, items |-> <<>>]
JNum(i) == [k |-> "num", n |-> i, s |-> "", keys |-> <<>>, items |-> <<>>]
JStr(c) == [k |-> "str", n |-> 0, s |-> c, keys |-> <<>>, items |-> <<>>]
JList(xs) == [k |-> "list", n |-> 0, s |-> "", keys |-> <<>>, items |-> xs]
\* a dict: keys in insertion order, items[i] the value of keys[i]
JDict(ks, xs) == [k |-> "dict", n |-> 0, s |-> "", keys |-> ks, items |-> xs]

\* isinstance(v, dict): only a dict has .get
IsDict(v) == v.k = "dict"

\* Python truthiness, bool(v)
Truthy(v) ==
  CASE v.k = "null" -> FALSE
    [] v.k = "true" -> TRUE
    [] v.k = "false" -> FALSE
    [] v.k = "num" -> v.n # 0
    [] v.k = "str" -> v.s # ""
    [] v.k = "list" -> v.items # <<>>
    [] v.k = "dict" -> v.keys # <<>>

HasKey(d, key) == \E i \in 1..Len(d.keys) : d.keys[i] = key

\* d.get(key, default) on a dict d
DictGet(d, key, default) ==
  IF HasKey(d, key)
  THEN d.items[CHOOSE i \in 1..Len(d.keys) : d.keys[i] = key]
  ELSE default

\* d[key] = v on a dict under construction: a repeated key keeps its place
\* and takes the later value
DictPut(d, key, v) ==
  IF HasKey(d, key)
  THEN LET i == CHOOSE j \in 1..Len(d.keys) : d.keys[j] = key
       IN  JDict(d.keys, [d.items EXCEPT ![i] = v])
  ELSE JDict(Append(d.keys, key), Append(d.items, v))

(***************************************************************************)
(* json.loads: a recursive-descent parse of the whole text.                *)
(***************************************************************************)
ParseFail == [ok |-> FALSE, val |-> JNull, rest |-> <<>>]
ParseOk(v, rest) == [ok |-> TRUE, val |-> v, rest |-> rest]

IsP(ts, c) == ts # <<>> /\ Head(ts).k = "p" /\ Head(ts).s = c

RECURSIVE ParseValue(_), ParseElems(_, _), ParseMembers(_, _)

\* one JSON value at the head of ts
ParseValue(ts) ==
  IF ts = <<>> THEN ParseFail
  ELSE LET t == Head(ts) IN
    CASE t.k = "lit" /\ t.s = "true" -> ParseOk(JBool(TRUE), Tail(ts))
      [] t.k = "lit" /\ t.s = "false" -> ParseOk(JBool(FALSE), Tail(ts))
      [] t.k = "lit" /\ t.s = "null" -> ParseOk(JNull, Tail(ts))
      [] t.k = "num" -> ParseOk(JNum(t.n), Tail(ts))
      [] t.k = "str" -> ParseOk(JStr(t.s), Tail(ts))
      [] t.k = "p" /\ t.s = "[" ->
           IF IsP(Tail(ts), "]") THEN ParseOk(JList(<<>>), Tail(Tail(ts)))
           ELSE ParseElems(Tail(ts), <<>>)
      [] t.k = "p" /\ t.s = "{" ->
           IF IsP(Tail(ts), "}") THEN ParseOk(JDict(<<>>, <<>>), Tail(Tail(ts)))
           ELSE ParseMembers(Tail(ts), JDict(<<>>, <<>>))
      [] OTHER -> ParseFail

\* value (, value)* ] with acc the elements read so far
\* (r is bound once to the result of parsing the next value)
ParseElems(ts, acc) ==
  CHOOSE res \in
    { IF ~r.ok THEN ParseFail
      ELSE IF IsP(r.rest, ",") THEN ParseElems(Tail(r.rest), Append(acc, r.val))
      ELSE IF IsP(r.rest, "]") THEN ParseOk(JList(Append(acc, r.val)), Tail(r.rest))
      ELSE ParseFail : r \in {ParseValue(ts)} } : TRUE

\* "key" : value (, "key" : value)* } with acc the dict read so far
\* (r is bound once to the result of parsing the member's value)
ParseMembers(ts, acc) ==
  IF ts = <<>> \/ Head(ts).k # "str" \/ ~IsP(Tail(ts), ":") THEN ParseFail
  ELSE CHOOSE res \in
         { IF ~r.ok THEN ParseFail
           ELSE IF IsP(r.rest, ",")
                THEN ParseMembers(Tail(r.rest), DictPut(acc, Head(ts).s, r.val))
           ELSE IF IsP(r.rest, "}")
                THEN ParseOk(DictPut(acc, Head(ts).s, r.val), Tail(r.rest))
           ELSE ParseFail : r \in {ParseValue(Tail(Tail(ts)))} } : TRUE

IsWS(t) == t.k = "ws"
NotWS(t) == ~IsWS(t)

\* json.loads(raw): whitespace between lexemes is skipped, one value must
\* span the whole text; ok = FALSE stands for the JSONDecodeError
json_loads(raw) ==
  LET r == ParseValue(SelectSeq(raw, NotWS))
  IN  IF r.ok /\ r.rest = <<>> THEN r ELSE ParseFail

(***************************************************************************)
(* json.dumps: the default separators ", " and ": ".                       *)
(***************************************************************************)
RECURSIVE DumpValue(_), DumpElems(_, _), DumpMembers(_, _, _)

DumpValue(v) ==
  CASE v.k = "null" -> <<Lit("null")>>
    [] v.k = "true" -> <<Lit("true")>>
    [] v.k = "false" -> <<Lit("false")>>
    [] v.k = "num" -> <<NumT(v.n)>>
    [] v.k = "str" -> <<StrT(v.s)>>
    [] v.k = "list" -> <<P("[")>> \o DumpElems(v.items, 1) \o <<P("]")>>
    [] v.k = "dict" -> <<P("{")>> \o DumpMembers(v.keys, v.items, 1) \o <<P("}")>>

DumpElems(xs, i) ==
  IF i > Len(xs) THEN <<>>
  ELSE (IF i > 1 THEN <<P(","), WS(" ")>> ELSE <<>>)
       \o DumpValue(xs[i]) \o DumpElems(xs, i + 1)

DumpMembers(ks, xs, i) ==
  IF i > Len(ks) THEN <<>>
  ELSE (IF i > 1 THEN <<P(","), WS(" ")>> ELSE <<>>)
       \o <<StrT(ks[i]), P(":"), WS(" ")>> \o DumpValue(xs[i])
       \o DumpMembers(ks, xs, i + 1)

json_dumps(v) == DumpValue(v)


(***************************************************************************)
(* Program constants.                                                      *)
(***************************************************************************)
\* r.status_code == 429
RateLimited == 429
\* the default of .get("retry_after", 5) and of the except branch
DefaultRetryAfter == 5
\* time.sleep(1) between two polls
PollInterval == 1
\* max_tokens of the three steps
RouterMaxTokens == 120
CommandMaxTokens == 200
AnswerMaxTokens == 300
\* temperature of the three steps, in tenths (0.2, 0.2, 0.3)
RouterTemperature == 2
CommandTemperature == 2
AnswerTemperature == 3

(***************************************************************************)
(* Bounds of the model.                                                    *)
(***************************************************************************)
\* requests the host receives, one after the other
NumRequests == 1
\* time.sleep calls of one invocation: backoffs after a 429 and waits
\* between two polls together
MaxSleeps == 2

Requests == 1..NumRequests

(***************************************************************************)
(* The environment: what the user asks, what the model writes, what the    *)
(* provider's API answers.                                                 *)
(***************************************************************************)
\* request.json["prompt"]
UserInputs ==
  { <<Word("What is a compartment?")>>,
    <<Word("List all buckets in compartment X")>> }

\* the texts a model asked for {"use_command_tool": ..., "missing_fields":
\* [...], "reason": ""} may write
RouteObj(u, m) ==
  JDict(<<"use_command_tool", "missing_fields", "reason">>, <<u, JList(m), JStr("")>>)

RouterTexts ==
  { \* the object asked for
    json_dumps(RouteObj(JBool(TRUE), <<>>)),
    json_dumps(RouteObj(JBool(FALSE), <<>>)),
    json_dumps(RouteObj(JBool(TRUE), <<JStr("compartment_id")>>)),
    \* the object after a sentence of prose
    <<Word("Here is the JSON:"), WS("\n")>> \o json_dumps(RouteObj(JBool(TRUE), <<>>)),
    \* the object cut before its closing brace
    SubSeq(json_dumps(RouteObj(JBool(TRUE), <<>>)), 1,
           Len(json_dumps(RouteObj(JBool(TRUE), <<>>))) - 1),
    \* valid JSON that is no object
    <<P("["), Lit("true"), P("]")>>,
    \* objects without the field, or with a value that is no boolean
    <<P("{"), P("}")>>,
    json_dumps(RouteObj(JStr("false"), <<>>)),
    json_dumps(RouteObj(JNum(0), <<>>)) }

\* the texts a model asked for {"generated_command": "", "missing_fields":
\* [], "notes": ""} may write
CommandObj(c, m) ==
  JDict(<<"generated_command", "missing_fields", "notes">>, <<c, JList(m), JStr("")>>)

CommandTexts ==
  { json_dumps(CommandObj(JStr("oci os bucket list --compartment-id X"), <<>>)),
    json_dumps(CommandObj(JStr(""), <<JStr("compartment_id")>>)),
    json_dumps(CommandObj(JStr(""), <<>>)),
    <<Word("~~~json"), WS("\n")>> \o json_dumps(CommandObj(JStr(""), <<JStr("compartment_id")>>))
       \o <<WS("\n"), Word("~~~")>>,
    <<P("["), StrT("oci os bucket list"), P("]")>>,
    <<P("{"), P("}")>>,
    json_dumps(CommandObj(JNull, <<>>)) }

AnswerTexts == { <<Word("Problem Summary ...")>> }

\* the text the model writes for a system prompt
ModelTexts(system_prompt) ==
  CASE system_prompt = "ROUTER_PROMPT" -> RouterTexts
    [] system_prompt = "COMMAND_PROMPT" -> CommandTexts
    [] OTHER -> AnswerTexts

\* the provider's version ids and job ids
Versions == {"v1", "v2"}
JobIds == {"p1"}
\* HTTP failures other than 429
HttpErrors == {404, 500}

\* a response: the status code and the body; json = FALSE is a body that
\* is no JSON (r.json() raises)
Response(code, v) == [code |-> code, json |-> TRUE, v |-> v]
NonJson(code) == [code |-> code, json |-> FALSE, v |-> JNull]

\* the body of the provider's error responses, {"detail": ..., "status": code}
Problem(code) == JDict(<<"detail", "status">>, <<JStr("error"), JNum(code)>>)

\* GET /models/{owner}/{name}
LookupResponses ==
  { Response(200, JDict(<<"latest_version">>, <<JDict(<<"id">>, <<JStr(v)>>)>>)) : v \in Versions }
  \cup { Response(c, Problem(c)) : c \in HttpErrors \cup {RateLimited} }

\* POST /predictions
SubmitResponses ==
  { Response(201, JDict(<<"id", "status">>, <<JStr(p), JStr("starting")>>)) : p \in JobIds }
  \cup { Response(c, Problem(c)) : c \in HttpErrors }
  \cup { Response(RateLimited, Problem(RateLimited)),
         Response(RateLimited, JDict(<<"detail", "retry_after">>, <<JStr("throttled"), JNum(3)>>)),
         Response(RateLimited, JDict(<<"detail", "retry_after">>, <<JStr("throttled"), JStr("soon")>>)) }

\* the "output" member of a status body, kept beside the body because its
\* strings are texts: absent, one string, or a list of strings
NoOutput == [k |-> "absent", frags |-> <<>>]
OutStr(text) == [k |-> "str", frags |-> <<text>>]
OutList(text) ==
  [k |-> "list", frags |-> << SubSeq(text, 1, Len(text) \div 2),
                              SubSeq(text, Len(text) \div 2 + 1, Len(text)) >>]

StatusBody(st) == JDict(<<"id", "status">>, <<JStr("job"), JStr(st)>>)
PollResponse(resp, out) == [resp |-> resp, out |-> out]

\* GET /predictions/{pid}, for a job running the model on system_prompt
PendingResponses ==
  { PollResponse(Response(200, StatusBody(st)), NoOutput) : st \in {"processing", "queued"} }
  \cup { PollResponse(Response(500, Problem(500)), NoOutput) }

PollResponses(system_prompt) ==
  PendingResponses
  \cup { PollResponse(Response(200, StatusBody(st)), NoOutput) : st \in {"failed", "canceled", "succeeded"} }
  \cup { PollResponse(Response(200, StatusBody("succeeded")), OutStr(t)) : t \in ModelTexts(system_prompt) }
  \cup { PollResponse(Response(200, StatusBody("succeeded")), OutList(t)) : t \in ModelTexts(system_prompt) }
  \cup { PollResponse(Response(404, JDict(<<"detail">>, <<JStr("not found")>>)), NoOutput),
         PollResponse(NonJson(502), NoOutput) }

(***************************************************************************)
(* State.                                                                  *)
(***************************************************************************)
VARIABLES
  TOKEN,      \* the module global read from REPLICATE_API_TOKEN, stripped
  pc,         \* pc[r]: where request r is in chat() and in the graph
  state,      \* state[r]: the graph's State dict, a function on its keys
  cl,         \* cl[r]: the frame of r's running call of run_replicate_model
  calls,      \* calls[r]: the provider calls and sleeps of that call, in order
  response,   \* response[r]: what chat() hands to jsonify
  exc,        \* exc[r]: the exception that ended request r, "" if none
  ran,        \* ran[r]: the graph nodes r has entered, in order
  raws,       \* raws[r]: node |-> the text run_replicate_model returned to it
  ninvoke     \* ninvoke[r]: calls of run_replicate_model made for r

vars == <<TOKEN, pc, state, cl, calls, response, exc, ran, raws, ninvoke>>

NoFrame ==
  [pc |-> "none", system_prompt |-> "", prompt |-> <<>>, max_tokens |-> 0,
   temperature |-> 0, vid |-> "", retry_after |-> 0, pid |-> "",
   ret |-> <<>>, exc |-> ""]

NoInput ==
  [version |-> "", system_prompt |-> "", prompt |-> <<>>, prompt_template |-> "",
   max_new_tokens |-> 0, temperature |-> 0, stop_sequences |-> ""]

NoResponse == [set |-> FALSE, reply |-> <<>>, tool_used |-> FALSE,
               generated_command |-> JNull, missing_fields |-> JNull]

\* one entry of calls[r]: a provider call with its response, or a sleep
Event(op, arg, resp, out, d, input) ==
  [op |-> op, arg |-> arg, code |-> resp.code, json |-> resp.json, v |-> resp.v,
   out |-> out, d |-> d, input |-> input]
NoResp == NonJson(0)

(***************************************************************************)
(* run_replicate_model                                                     *)
(***************************************************************************)
\* int(x) for a decoded JSON value x; ok = FALSE stands for the ValueError
\* or TypeError
PyInt(x) ==
  CASE x.k = "num" -> [ok |-> TRUE, n |-> x.n]
    [] x.k = "true" -> [ok |-> TRUE, n |-> 1]
    [] x.k = "false" -> [ok |-> TRUE, n |-> 0]
    [] OTHER -> [ok |-> FALSE, n |-> 0]

\* try: retry_after = int(r.json().get("retry_after", 5))
\* except Exception: retry_after = 5
RetryAfter(resp) ==
  IF ~resp.json \/ ~IsDict(resp.v) THEN DefaultRetryAfter
  ELSE LET x == DictGet(resp.v, "retry_after", JNum(DefaultRetryAfter))
       IN  IF PyInt(x).ok THEN PyInt(x).n ELSE DefaultRetryAfter

\* fault: time.sleep(retry_after)
BackoffDelay_no_margin(f) == f.retry_after

\* time.sleep(retry_after + 1)
BackoffDelay(f) == f.retry_after + 1

\* the json= argument of the POST
SubmitInput(f) ==
  [version |-> f.vid, system_prompt |-> f.system_prompt,
   prompt |-> f.prompt \o <<WS("\n")>>, prompt_template |-> "LLAMA3_TEMPLATE",
   max_new_tokens |-> f.max_tokens, temperature |-> f.temperature,
   stop_sequences |-> "<|end_of_text|>,<|eot_id|>"]

RECURSIVE Join(_)
\* "".join(out)
Join(frags) == IF frags = <<>> THEN <<>> ELSE Head(frags) \o Join(Tail(frags))

\* out = j.get("output", ""); "".join(out) if isinstance(out, list) else str(out)
OutputText(out) ==
  CASE out.k = "absent" -> <<>>
    [] out.k = "list" -> Join(out.frags)
    [] out.k = "str" -> out.frags[1]

\* r.raise_for_status() raises
IsHttpError(code) == code >= 400

Raise(f, e) == [f EXCEPT !.pc = "raised", !.exc = e]
Return(f, text) == [f EXCEPT !.pc = "returned", !.ret = text]

\* the sleeps of the invocation so far
Sleeps(log) == Cardinality({i \in 1..Len(log) : log[i].op = "sleep"})

\* fault: no check of TOKEN, the lookup is sent with an empty credential
Invoke_unchecked(r, system_prompt, prompt, max_tokens, temperature) ==
  /\ cl' = [cl EXCEPT ![r] =
              [NoFrame EXCEPT !.pc = "lookup", !.system_prompt = system_prompt,
                              !.prompt = prompt, !.max_tokens = max_tokens,
                              !.temperature = temperature]]
  /\ calls' = [calls EXCEPT ![r] = <<>>]
  /\ ninvoke' = [ninvoke EXCEPT ![r] = @ + 1]

\* the call of run_replicate_model by a step of request r, up to the first
\* request to the provider
Invoke(r, system_prompt, prompt, max_tokens, temperature) ==
  /\ cl' = [cl EXCEPT ![r] =
              LET f == [NoFrame EXCEPT !.pc = "lookup", !.system_prompt = system_prompt,
                                       !.prompt = prompt, !.max_tokens = max_tokens,
                                       !.temperature = temperature]
              IN  IF TOKEN = "" THEN Raise(f, "ConfigError") ELSE f]
  /\ calls' = [calls EXCEPT ![r] = <<>>]
  /\ ninvoke' = [ninvoke EXCEPT ![r] = @ + 1]

\* 1) get latest version id
Lookup(r) ==
  /\ cl[r].pc = "lookup"
  /\ \E resp \in LookupResponses :
       /\ calls' = [calls EXCEPT ![r] = Append(@, Event("lookup", "", resp, NoOutput, 0, NoInput))]
       /\ cl' = [cl EXCEPT ![r] =
                   IF IsHttpError(resp.code) THEN Raise(@, "UpstreamError")
                   ELSE [@ EXCEPT !.pc = "submit",
                                  !.vid = DictGet(DictGet(resp.v, "latest_version", JNull), "id", JNull).s]]
  /\ UNCHANGED <<TOKEN, pc, state, response, exc, ran, raws, ninvoke>>

\* fault: one retry only, a second 429 is left to raise_for_status
Submit_capped(r) ==
  /\ cl[r].pc = "submit"
  /\ \E resp \in SubmitResponses :
       /\ resp.code = RateLimited => Sleeps(calls[r]) < MaxSleeps
       /\ calls' = [calls EXCEPT ![r] =
                      Append(@, Event("submit", cl[r].vid, resp, NoOutput, 0, SubmitInput(cl[r])))]
       /\ cl' = [cl EXCEPT ![r] =
                   IF resp.code = RateLimited /\ calls[r][Len(calls[r])].op # "sleep"
                   THEN [@ EXCEPT !.pc = "backoff", !.retry_after = RetryAfter(resp)]
                   ELSE IF IsHttpError(resp.code) THEN Raise(@, "UpstreamError")
                   ELSE [@ EXCEPT !.pc = "poll", !.pid = DictGet(resp.v, "id", JNull).s]]
  /\ UNCHANGED <<TOKEN, pc, state, response, exc, ran, raws, ninvoke>>

\* 2) create prediction: one pass of the while loop up to sleep, raise or break
Submit(r) ==
  /\ cl[r].pc = "submit"
  /\ \E resp \in SubmitResponses :
       /\ resp.code = RateLimited => Sleeps(calls[r]) < MaxSleeps
       /\ calls' = [calls EXCEPT ![r] =
                      Append(@, Event("submit", cl[r].vid, resp, NoOutput, 0, SubmitInput(cl[r])))]
       /\ cl' = [cl EXCEPT ![r] =
                   IF resp.code = RateLimited
                   THEN [@ EXCEPT !.pc = "backoff", !.retry_after = RetryAfter(resp)]
                   ELSE IF IsHttpError(resp.code) THEN Raise(@, "UpstreamError")
                   ELSE [@ EXCEPT !.pc = "poll", !.pid = DictGet(resp.v, "id", JNull).s]]
  /\ UNCHANGED <<TOKEN, pc, state, response, exc, ran, raws, ninvoke>>

\* fault: the retry loop starts over from the version lookup
Backoff_relookup(r) ==
  /\ cl[r].pc = "backoff"
  /\ calls' = [calls EXCEPT ![r] =
                 Append(@, Event("sleep", "submit", NoResp, NoOutput, BackoffDelay(cl[r]), NoInput))]
  /\ cl' = [cl EXCEPT ![r].pc = "lookup"]
  /\ UNCHANGED <<TOKEN, pc, state, response, exc, ran, raws, ninvoke>>

\* time.sleep(retry_after + 1); continue
Backoff(r) ==
  /\ cl[r].pc = "backoff"
  /\ calls' = [calls EXCEPT ![r] =
                 Append(@, Event("sleep", "submit", NoResp, NoOutput, BackoffDelay(cl[r]), NoInput))]
  /\ cl' = [cl EXCEPT ![r].pc = "submit"]
  /\ UNCHANGED <<TOKEN, pc, state, response, exc, ran, raws, ninvoke>>

\* fault: a status other than starting and processing ends the polling
PollOutcome_strict(f, pr) ==
  IF ~pr.resp.json THEN Raise(f, "JSONDecodeError")
  ELSE IF ~HasKey(pr.resp.v, "status") THEN Raise(f, "KeyError")
  ELSE LET st == DictGet(pr.resp.v, "status", JNull) IN
    IF st = JStr("succeeded") THEN Return(f, OutputText(pr.out))
    ELSE IF st \notin {JStr("starting"), JStr("processing")} THEN Raise(f, "ModelError")
    ELSE [f EXCEPT !.pc = "pollsleep"]

\* what one pass of the polling loop does with the response
PollOutcome(f, pr) ==
  IF ~pr.resp.json THEN Raise(f, "JSONDecodeError")
  ELSE IF ~HasKey(pr.resp.v, "status") THEN Raise(f, "KeyError")
  ELSE LET st == DictGet(pr.resp.v, "status", JNull) IN
    IF st = JStr("succeeded") THEN Return(f, OutputText(pr.out))
    ELSE IF st \in {JStr("failed"), JStr("canceled")} THEN Raise(f, "ModelError")
    ELSE [f EXCEPT !.pc = "pollsleep"]

\* 3) poll prediction: one pass of the while loop up to return, raise or sleep
Poll(r) ==
  /\ cl[r].pc = "poll"
  /\ \E pr \in PollResponses(cl[r].system_prompt) :
       /\ PollOutcome(cl[r], pr).pc = "pollsleep" => Sleeps(calls[r]) < MaxSleeps
       /\ calls' = [calls EXCEPT ![r] = Append(@, Event("poll", cl[r].pid, pr.resp, pr.out, 0, NoInput))]
       /\ cl' = [cl EXCEPT ![r] = PollOutcome(@, pr)]
  /\ UNCHANGED <<TOKEN, pc, state, response, exc, ran, raws, ninvoke>>

\* time.sleep(1)
PollSleep(r) ==
  /\ cl[r].pc = "pollsleep"
  /\ calls' = [calls EXCEPT ![r] = Append(@, Event("sleep", "poll", NoResp, NoOutput, PollInterval, NoInput))]
  /\ cl' = [cl EXCEPT ![r].pc = "poll"]
  /\ UNCHANGED <<TOKEN, pc, state, response, exc, ran, raws, ninvoke>>

run_replicate_model(r) ==
  \/ Lookup(r)
  \/ Submit(r)
  \/ Backoff(r)
  \/ Poll(r)
  \/ PollSleep(r)

(***************************************************************************)
(* The graph's State and its three nodes.                                  *)
(***************************************************************************)
\* state[key] = v
StateSet(st, key, v) == [x \in DOMAIN st \cup {key} |-> IF x = key THEN v ELSE st[x]]

\* the State a request has before chat() builds one, and after it is done
NoState == [x \in {} |-> <<>>]

\* fault: the router's fallback asks for the tool
RouterFallback_tool ==
  JDict(<<"use_command_tool", "missing_fields", "reason">>,
        <<JBool(TRUE), JList(<<>>), JStr("Router output not valid JSON")>>)

RouterFallback ==
  JDict(<<"use_command_tool", "missing_fields", "reason">>,
        <<JBool(FALSE), JList(<<>>), JStr("Router output not valid JSON")>>)

\* fault: the command's fallback is the empty dict
CommandFallback_empty == JDict(<<>>, <<>>)

CommandFallback ==
  JDict(<<"generated_command", "missing_fields", "notes">>,
        <<JStr(""), JList(<<>>), JStr("Command output not valid JSON")>>)

\* try: json.loads(raw)  except Exception: the fallback
Decode(raw, fallback) ==
  IF json_loads(raw).ok THEN json_loads(raw).val ELSE fallback

\* a node is entered: it calls run_replicate_model
Enter(r, node, system_prompt, prompt, max_tokens, temperature) ==
  /\ pc[r] = node
  /\ cl[r].pc = "none"
  /\ ran' = [ran EXCEPT ![r] = Append(@, node)]
  /\ Invoke(r, system_prompt, prompt, max_tokens, temperature)
  /\ UNCHANGED <<TOKEN, pc, state, response, exc, raws>>

\* the call returned: the node writes its key and returns the state
Leave(r, node, key, v, next) ==
  /\ pc[r] = node
  /\ cl[r].pc = "returned"
  /\ state' = [state EXCEPT ![r] = StateSet(@, key, v)]
  /\ pc' = [pc EXCEPT ![r] = next]
  /\ cl' = [cl EXCEPT ![r] = NoFrame]
  /\ calls' = [calls EXCEPT ![r] = <<>>]
  /\ raws' = [raws EXCEPT ![r] = StateSet(@, node, cl[r].ret)]
  /\ UNCHANGED <<TOKEN, response, exc, ran, ninvoke>>

router_call(r) ==
  Enter(r, "router", "ROUTER_PROMPT", state[r].user_input, RouterMaxTokens, RouterTemperature)

router_return(r) ==
  Leave(r, "router", "route", Decode(cl[r].ret, RouterFallback), "route_decision")

router(r) == router_call(r) \/ router_return(r)

command_call(r) ==
  Enter(r, "command", "COMMAND_PROMPT", state[r].user_input, CommandMaxTokens, CommandTemperature)

\* fault: command stores its result under "route", as router does
command_return_as_route(r) ==
  Leave(r, "command", "route", Decode(cl[r].ret, CommandFallback), "answer")

\* fault: the edge from command wired to END, graph.add_edge("command", END)
command_return_to_end(r) ==
  Leave(r, "command", "command", Decode(cl[r].ret, CommandFallback), "END")

command_return(r) ==
  Leave(r, "command", "command", Decode(cl[r].ret, CommandFallback), "answer")

command(r) == command_call(r) \/ command_return(r)

\* fault: the block serializes state["route"]
ToolInfo_route(st) ==
  IF "command" \in DOMAIN st
  THEN <<WS("\n"), Word("[CommandTool]"), WS("\n")>> \o json_dumps(st.route) \o <<WS("\n")>>
  ELSE <<>>

\* tool_info: "" or "\n[CommandTool]\n" + json.dumps(state["command"]) + "\n"
ToolInfo(st) ==
  IF "command" \in DOMAIN st
  THEN <<WS("\n"), Word("[CommandTool]"), WS("\n")>> \o json_dumps(st.command) \o <<WS("\n")>>
  ELSE <<>>

answer_call(r) ==
  Enter(r, "answer", "SYSTEM_PROMPT", state[r].user_input \o ToolInfo(state[r]),
        AnswerMaxTokens, AnswerTemperature)

answer_return(r) ==
  Leave(r, "answer", "reply", cl[r].ret, "END")

answer(r) == answer_call(r) \/ answer_return(r)

\* the exception raised where request r is propagates out of the node, the
\* graph and chat(): the request ends without a response record
Fail(r, e) ==
  /\ pc' = [pc EXCEPT ![r] = "failed"]
  /\ exc' = [exc EXCEPT ![r] = e]
  /\ cl' = [cl EXCEPT ![r] = NoFrame]
  /\ calls' = [calls EXCEPT ![r] = <<>>]
  /\ UNCHANGED <<TOKEN, state, response, ran, raws, ninvoke>>

\* fault: the node catches the exception and goes on with an empty text,
\* except Exception: raw = ""
propagate_swallow(r) ==
  /\ pc[r] \in {"router", "command", "answer"}
  /\ cl[r].pc = "raised"
  /\ cl' = [cl EXCEPT ![r] = Return(@, <<>>)]
  /\ UNCHANGED <<TOKEN, pc, state, calls, response, exc, ran, raws, ninvoke>>

\* run_replicate_model raised inside a node
propagate(r) ==
  /\ pc[r] \in {"router", "command", "answer"}
  /\ cl[r].pc = "raised"
  /\ Fail(r, cl[r].exc)

\* fault: a route that needs no command ends the graph, "command" if ... else END
Branch_to_end(route) ==
  IF ~IsDict(route) THEN "AttributeError"
  ELSE IF Truthy(DictGet(route, "use_command_tool", JNull)) THEN "command"
  ELSE "END"

\* fault: the branch tests "use_command_tool" in state["route"]
Branch_has_key(route) ==
  IF ~IsDict(route) THEN "AttributeError"
  ELSE IF HasKey(route, "use_command_tool") THEN "command"
  ELSE "answer"

\* "command" if state["route"].get("use_command_tool") else "answer";
\* "AttributeError" when state["route"] has no .get
Branch(route) ==
  IF ~IsDict(route) THEN "AttributeError"
  ELSE IF Truthy(DictGet(route, "use_command_tool", JNull)) THEN "command"
  ELSE "answer"

route_decision(r) ==
  /\ pc[r] = "route_decision"
  /\ IF Branch(state[r].route) = "AttributeError"
     THEN Fail(r, "AttributeError")
     ELSE /\ pc' = [pc EXCEPT ![r] = Branch(state[r].route)]
          /\ UNCHANGED <<TOKEN, state, cl, calls, response, exc, ran, raws, ninvoke>>

CHAT_GRAPH(r) ==
  \/ router(r)
  \/ route_decision(r)
  \/ command(r)
  \/ answer(r)
  \/ propagate(r)

(***************************************************************************)
(* chat(): POST /api/chat                                                  *)
(***************************************************************************)
\* the host takes the requests one at a time, in the order of their ids
Turn(r) == \A o \in Requests : o < r => pc[o] = "done"

\* fault: the question is kept in one module-level State that every request
\* in flight works on
chat_entry_global(r) ==
  /\ pc[r] = "idle"
  /\ \E q \in UserInputs :
       state' = [o \in DOMAIN state |->
                   IF o = r THEN [x \in {"user_input"} |-> q]
                   ELSE IF "user_input" \in DOMAIN state[o]
                        THEN [state[o] EXCEPT !.user_input = q]
                        ELSE state[o]]
  /\ pc' = [pc EXCEPT ![r] = "router"]
  /\ UNCHANGED <<TOKEN, cl, calls, response, exc, ran, raws, ninvoke>>

\* q = request.json["prompt"]; CHAT_GRAPH.invoke({"user_input": q})
chat_entry(r) ==
  /\ pc[r] = "idle"
  /\ \E q \in UserInputs : state' = [state EXCEPT ![r] = [x \in {"user_input"} |-> q]]
  /\ pc' = [pc EXCEPT ![r] = "router"]
  /\ UNCHANGED <<TOKEN, cl, calls, response, exc, ran, raws, ninvoke>>

\* chat() under a host that serves one request at a time
chat_invoke(r) ==
  /\ Turn(r)
  /\ chat_entry(r)

\* cmd = out.get("command", {})
Cmd(out) == IF "command" \in DOMAIN out THEN out.command ELSE JDict(<<>>, <<>>)

\* fault: tool_used = bool(cmd)
ToolUsed_ran(cmd) == Truthy(cmd)

\* bool(cmd.get("generated_command")) or bool(cmd.get("missing_fields"))
ToolUsed(cmd) ==
  \/ Truthy(DictGet(cmd, "generated_command", JNull))
  \/ Truthy(DictGet(cmd, "missing_fields", JNull))

\* the dict given to jsonify
Reply(out) ==
  [set |-> TRUE,
   reply |-> IF "reply" \in DOMAIN out THEN out.reply ELSE <<>>,
   tool_used |-> ToolUsed(Cmd(out)),
   generated_command |-> DictGet(Cmd(out), "generated_command", JStr("")),
   missing_fields |-> DictGet(Cmd(out), "missing_fields", JList(<<>>))]

\* the graph reached END: chat() derives the response from the final state
chat_respond(r) ==
  /\ pc[r] = "END"
  /\ IF ~IsDict(Cmd(state[r]))
     THEN Fail(r, "AttributeError")
     ELSE /\ response' = [response EXCEPT ![r] = Reply(state[r])]
          /\ pc' = [pc EXCEPT ![r] = "responded"]
          /\ UNCHANGED <<TOKEN, state, cl, calls, exc, ran, raws, ninvoke>>

\* the response (or the failure) is sent: nothing of the request is kept
chat_done(r) ==
  /\ pc[r] \in {"responded", "failed"}
  /\ pc' = [pc EXCEPT ![r] = "done"]
  /\ state' = [state EXCEPT ![r] = NoState]
  /\ response' = [response EXCEPT ![r] = NoResponse]
  /\ exc' = [exc EXCEPT ![r] = ""]
  /\ ran' = [ran EXCEPT ![r] = <<>>]
  /\ raws' = [raws EXCEPT ![r] = NoState]
  /\ ninvoke' = [ninvoke EXCEPT ![r] = 0]
  /\ UNCHANGED <<TOKEN, cl, calls>>

chat(r) ==
  \/ chat_invoke(r)
  \/ chat_respond(r)
  \/ chat_done(r)

(***************************************************************************)
(* The specification.                                                      *)
(***************************************************************************)
Init ==
  /\ TOKEN \in {"", "r8_token"}
  /\ pc = [r \in Requests |-> "idle"]
  /\ state = [r \in Requests |-> NoState]
  /\ cl = [r \in Requests |-> NoFrame]
  /\ calls = [r \in Requests |-> <<>>]
  /\ response = [r \in Requests |-> NoResponse]
  /\ exc = [r \in Requests |-> ""]
  /\ ran = [r \in Requests |-> <<>>]
  /\ raws = [r \in Requests |-> NoState]
  /\ ninvoke = [r \in Requests |-> 0]

Next ==
  \E r \in Requests :
    \/ chat(r)
    \/ CHAT_GRAPH(r)
    \/ run_replicate_model(r)

Spec == Init /\ [][Next]_vars

(***************************************************************************)
(* A plain environment, for the specifications that look at interleaving   *)
(* and at progress rather than at what the model writes: each request has  *)
(* its own question, the provider knows one version, and a job that        *)
(* succeeded gives, as one string, one of a few well-formed texts.         *)
(***************************************************************************)
\* the question of request r: requests side by side ask different things,
\* so that what one request takes from another shows
Question(r) ==
  IF r % 2 = 1 THEN <<Word("What is a compartment?")>>
  ELSE <<Word("List all buckets in compartment X")>>

PlainTexts ==
  { json_dumps(RouteObj(JBool(TRUE), <<>>)),
    json_dumps(RouteObj(JBool(FALSE), <<>>)),
    json_dumps(CommandObj(JStr(""), <<JStr("compartment_id")>>)) }
  \cup AnswerTexts

Plain(e) ==
  /\ (e.op = "lookup" /\ e.code < 300) =>
       e.v = JDict(<<"latest_version">>, <<JDict(<<"id">>, <<JStr("v1")>>)>>)
  /\ (e.op = "poll" /\ e.v = StatusBody("succeeded")) =>
       (e.out.k = "str" /\ e.out.frags[1] \in PlainTexts)

\* the last provider call of r after the step
LastCall(r) == calls'[r][Len(calls'[r])]

(***************************************************************************)
(* Progress.  The thread of a request keeps running: every step of the     *)
(* request that stays possible is taken.  The provider stops answering 429 *)
(* and every job comes to an end: a submission that is retried again and   *)
(* again is answered other than 429 at last, a job polled again and again  *)
(* is reported succeeded, failed or canceled at last.                      *)
(***************************************************************************)
\* the provider gives the submission of r an answer other than 429
SubmitAnswered(r) == Submit(r) /\ cl'[r].pc # "backoff"

\* the provider reports the job of r, or the poll fails
PollEnded(r) == Poll(r) /\ Plain(LastCall(r)) /\ cl'[r].pc # "pollsleep"

\* a step of request r in the plain environment
StepFair(r) ==
  \/ chat_invoke(r) /\ state'[r].user_input = Question(r)
  \/ chat_respond(r)
  \/ chat_done(r)
  \/ CHAT_GRAPH(r)
  \/ Lookup(r) /\ Plain(LastCall(r))
  \/ Submit(r)
  \/ Backoff(r)
  \/ Poll(r) /\ Plain(LastCall(r))
  \/ PollSleep(r)

NextFair == \E r \in Requests : StepFair(r)

Fairness ==
  \A r \in Requests :
    /\ WF_vars(StepFair(r))
    /\ SF_vars(SubmitAnswered(r))
    /\ SF_vars(PollEnded(r))

SpecFair == Init /\ [][NextFair]_vars /\ Fairness

(***************************************************************************)
(* The threaded host: app.run serves each request on a thread of its own,  *)
(* so the steps and the provider calls of several requests interleave.     *)
(***************************************************************************)
\* requests in flight at the same time
NumConcurrent == 2

Threads == 1..NumConcurrent

\* while requests run side by side the provider answers every call at
\* once: no failure, no 429, and a job has ended by its first poll.  (The
\* waits of a call, which Spec covers, lengthen the call and touch no
\* request's state.)
AtOnce(e) ==
  /\ Plain(e)
  /\ e.code < 300
  /\ e.op = "poll" => e.v \in {StatusBody("failed"), StatusBody("succeeded")}

InitConc ==
  /\ TOKEN \in {"", "r8_token"}
  /\ pc = [r \in Threads |-> "idle"]
  /\ state = [r \in Threads |-> NoState]
  /\ cl = [r \in Threads |-> NoFrame]
  /\ calls = [r \in Threads |-> <<>>]
  /\ response = [r \in Threads |-> NoResponse]
  /\ exc = [r \in Threads |-> ""]
  /\ ran = [r \in Threads |-> <<>>]
  /\ raws = [r \in Threads |-> NoState]
  /\ ninvoke = [r \in Threads |-> 0]

NextConc ==
  \E r \in Threads :
    \/ chat_entry(r) /\ state'[r].user_input = Question(r)
    \/ chat_respond(r)
    \/ chat_done(r)
    \/ CHAT_GRAPH(r)
    \/ Lookup(r) /\ AtOnce(LastCall(r))
    \/ Submit(r) /\ AtOnce(LastCall(r))
    \/ Poll(r) /\ AtOnce(LastCall(r))

SpecConc == InitConc /\ [][NextConc]_vars

(***************************************************************************)
(* Properties.                                                             *)
(***************************************************************************)
\* how often node was entered
Runs(seq, node) == Cardinality({i \in 1..Len(seq) : seq[i] = node})

\* the graph run of r reached END
AtEnd(r) == pc[r] \in {"END", "responded"}

\* the route decision in state has use_command_tool = b
RouteSays(r, b) ==
  /\ "route" \in DOMAIN state[r]
  /\ IsDict(state[r].route)
  /\ HasKey(state[r].route, "use_command_tool")
  /\ DictGet(state[r].route, "use_command_tool", JNull) = JBool(b)

\* C1: the answer step is never entered twice, and a request whose graph
\* run reached END entered it exactly once and has its reply, on the path
\* router -> answer and on the path router -> command -> answer.
C1_AnswerOnce ==
  \A r \in Requests :
    /\ Runs(ran[r], "answer") <= 1
    /\ AtEnd(r) =>
         /\ Runs(ran[r], "answer") = 1
         /\ ran[r] \in {<<"router", "answer">>, <<"router", "command", "answer">>}
         /\ "reply" \in DOMAIN state[r]

\* a graph run over router -> command -> answer is at END
C1_Witness ==
  \E r \in Requests : pc[r] = "END" /\ ran[r] = <<"router", "command", "answer">>

\* the text after the user input in the prompt answer passed to the client
PromptBlock(r) ==
  SubSeq(cl[r].prompt, Len(state[r].user_input) + 1, Len(cl[r].prompt))

\* C2: when the route decision has use_command_tool = true, the graph goes
\* on to command and nowhere else, answer is entered only after command has
\* written state.command, and the prompt answer passes to the client is the
\* user input followed by a line "[CommandTool]" and a line of JSON that
\* decodes to exactly state.command; the submitted prompt is that text and
\* a line break.
C2_CommandBeforeAnswer ==
  \A r \in Requests :
    RouteSays(r, TRUE) =>
      /\ pc[r] \in {"route_decision", "command", "answer", "END", "responded", "failed"}
      /\ pc[r] \in {"answer", "END", "responded"} => Runs(ran[r], "command") = 1
      /\ Runs(ran[r], "answer") > 0 =>
           /\ ran[r] = <<"router", "command", "answer">>
           /\ "command" \in DOMAIN state[r]
           /\ "command" \in DOMAIN raws[r]
      /\ (pc[r] = "answer" /\ cl[r].pc # "none") =>
           /\ Len(cl[r].prompt) >= Len(state[r].user_input) + 5
           /\ SubSeq(cl[r].prompt, 1, Len(state[r].user_input)) = state[r].user_input
           /\ SubSeq(PromptBlock(r), 1, 3) = <<WS("\n"), Word("[CommandTool]"), WS("\n")>>
           /\ PromptBlock(r)[Len(PromptBlock(r))] = WS("\n")
           /\ json_loads(SubSeq(PromptBlock(r), 4, Len(PromptBlock(r)) - 1)).ok
           /\ json_loads(SubSeq(PromptBlock(r), 4, Len(PromptBlock(r)) - 1)).val = state[r].command
           /\ \A i \in 1..Len(calls[r]) :
                calls[r][i].op = "submit" =>
                  calls[r][i].input.prompt = cl[r].prompt \o <<WS("\n")>>

\* answer has submitted its prompt after command wrote a command with a
\* missing field
C2_Witness ==
  \E r \in Requests :
    /\ RouteSays(r, TRUE)
    /\ pc[r] = "answer"
    /\ cl[r].pc = "poll"
    /\ state[r].command = CommandObj(JStr(""), <<JStr("compartment_id")>>)

\* C3: when the route decision has use_command_tool = false, command is
\* never entered, the state never holds a command, and the response has
\* tool_used false, generated_command "" and missing_fields [].
C3_NoCommand ==
  \A r \in Requests :
    RouteSays(r, FALSE) =>
      /\ pc[r] # "command"
      /\ Runs(ran[r], "command") = 0
      /\ "command" \notin DOMAIN state[r]
      /\ response[r].set =>
           /\ response[r].tool_used = FALSE
           /\ response[r].generated_command = JStr("")
           /\ response[r].missing_fields = JList(<<>>)

\* a request the model itself routed away from the tool got its response
C3_Witness ==
  \E r \in Requests :
    /\ RouteSays(r, FALSE)
    /\ pc[r] = "responded"
    /\ json_loads(raws[r].router).ok

\* a response field holds something: a text other than "", a list other
\* than []; null holds nothing
NonEmpty(v) ==
  CASE v.k = "str" -> v.s # ""
    [] v.k = "list" -> v.items # <<>>
    [] v.k = "null" -> FALSE
    [] OTHER -> TRUE

\* C4: in every response, tool_used is true exactly when generated_command
\* is non-empty or missing_fields is non-empty; so it is false when command
\* ran and gave an empty command and no missing field, and true when the
\* command is empty and a field is missing.
C4_ToolUsedIff ==
  \A r \in Requests :
    response[r].set =>
      (response[r].tool_used <=>
         (NonEmpty(response[r].generated_command) \/ NonEmpty(response[r].missing_fields)))

\* Scenario C: an empty command, compartment_id missing, tool_used true
C4_Witness ==
  \E r \in Requests :
    /\ pc[r] = "responded"
    /\ response[r].generated_command = JStr("")
    /\ response[r].missing_fields = JList(<<JStr("compartment_id")>>)
    /\ response[r].tool_used

\* the text node got from the model is no JSON
Malformed(r, node) == node \in DOMAIN raws[r] /\ ~json_loads(raws[r][node]).ok

\* the exceptions run_replicate_model raises
ClientErrors == {"ConfigError", "UpstreamError", "ModelError", "KeyError", "JSONDecodeError"}

\* C5: when the text the router got is no JSON, state.route is the fallback
\* with use_command_tool = false and missing_fields = [], the graph goes
\* from router to answer, and command is never entered.
C5_RouterFallback ==
  \A r \in Requests :
    Malformed(r, "router") =>
      /\ IsDict(state[r].route)
      /\ DictGet(state[r].route, "use_command_tool", JNull) = JBool(FALSE)
      /\ DictGet(state[r].route, "missing_fields", JNull) = JList(<<>>)
      /\ pc[r] \in {"route_decision", "answer", "END", "responded", "failed"}
      /\ Runs(ran[r], "command") = 0
      /\ "command" \notin DOMAIN state[r]
      /\ Len(ran[r]) > 1 => ran[r] = <<"router", "answer">>
      /\ pc[r] = "failed" => (Runs(ran[r], "answer") = 1 /\ exc[r] \in ClientErrors)

\* a request whose router text was prose before the JSON got its response
C5_Witness ==
  \E r \in Requests :
    /\ pc[r] = "responded"
    /\ Malformed(r, "router")
    /\ raws[r].router # <<>>
    /\ ran[r] = <<"router", "answer">>

\* C6: when the text command got is no JSON, state.command is the fallback
\* with generated_command = "" and missing_fields = [], the graph goes on to
\* answer and END (only an exception of the client in answer ends it), and
\* the response has generated_command = "" and tool_used equal to whether
\* missing_fields is non-empty.
C6_CommandFallback ==
  \A r \in Requests :
    Malformed(r, "command") =>
      /\ IsDict(state[r].command)
      /\ DictGet(state[r].command, "generated_command", JNull) = JStr("")
      /\ DictGet(state[r].command, "missing_fields", JNull) = JList(<<>>)
      /\ pc[r] \in {"answer", "END", "responded", "failed"}
      /\ pc[r] = "failed" => (Runs(ran[r], "answer") = 1 /\ exc[r] \in ClientErrors)
      /\ response[r].set =>
           /\ response[r].generated_command = JStr("")
           /\ response[r].tool_used = NonEmpty(response[r].missing_fields)

\* a request whose command text was fenced JSON got its response
C6_Witness ==
  \E r \in Requests :
    /\ pc[r] = "responded"
    /\ Malformed(r, "command")
    /\ response[r].tool_used = FALSE

\* the shapes of RouteDecision and CommandResult
IsRouteDecision(v) ==
  /\ IsDict(v)
  /\ HasKey(v, "use_command_tool") /\ DictGet(v, "use_command_tool", JNull).k \in {"true", "false"}
  /\ HasKey(v, "missing_fields") /\ DictGet(v, "missing_fields", JNull).k = "list"
  /\ HasKey(v, "reason") /\ DictGet(v, "reason", JNull).k = "str"

IsCommandResult(v) ==
  /\ IsDict(v)
  /\ HasKey(v, "generated_command") /\ DictGet(v, "generated_command", JNull).k = "str"
  /\ HasKey(v, "missing_fields") /\ DictGet(v, "missing_fields", JNull).k = "list"
  /\ HasKey(v, "notes") /\ DictGet(v, "notes", JNull).k = "str"

\* C7: whatever text the model returns, state.route is a RouteDecision and
\* state.command is a CommandResult, and no request ends by an exception
\* other than those the client raises: route_decision, answer and the field
\* extraction of chat() complete.
C7_DecodeNeverFails ==
  \A r \in Requests :
    pc[r] \in {"responded", "failed"} =>
      /\ "route" \in DOMAIN state[r] => IsRouteDecision(state[r].route)
      /\ "command" \in DOMAIN state[r] => IsCommandResult(state[r].command)
      /\ pc[r] = "failed" => exc[r] \in ClientErrors

\* a submission answered 429
Is429(e) == e.op = "submit" /\ e.code = 429

\* the wait a 429 response suggests: its retry_after when that is a number,
\* 5 when the body has none, has one that is no number, or is no JSON
Suggested(e) ==
  IF e.json /\ IsDict(e.v) /\ HasKey(e.v, "retry_after")
     /\ DictGet(e.v, "retry_after", JNull).k = "num"
  THEN DictGet(e.v, "retry_after", JNull).n
  ELSE 5

\* C8: in the calls of one invocation every submission answered 429 is
\* followed by a sleep of the suggested wait + 1 (5 + 1 when none is given
\* or it cannot be parsed) and then by a submission of the same input; right
\* after a 429 the client is about to sleep, neither polling nor raising;
\* and every submission after the first comes after such a sleep.
C8_BackoffOn429 ==
  \A r \in Requests :
    LET log == calls[r] IN
      \A i \in 1..Len(log) :
        /\ Is429(log[i]) =>
             /\ i = Len(log) =>
                  (cl[r].pc = "backoff" /\ cl[r].retry_after = Suggested(log[i]))
             /\ i < Len(log) =>
                  (log[i + 1].op = "sleep" /\ log[i + 1].d = Suggested(log[i]) + 1)
             /\ i + 1 = Len(log) => cl[r].pc = "submit"
             /\ i + 2 <= Len(log) =>
                  (log[i + 2].op = "submit" /\ log[i + 2].input = log[i].input)
        /\ (log[i].op = "submit" /\ \E j \in 1..(i - 1) : log[j].op = "submit") =>
             /\ i > 2
             /\ log[i - 1].op = "sleep"
             /\ Is429(log[i - 2])
             /\ log[i - 1].d = Suggested(log[i - 2]) + 1

\* Scenario D and the default: 429 with retry_after = 3, a sleep of 4, 429
\* with no retry_after, a sleep of 6, and the third submission is accepted
C8_Witness ==
  \E r \in Requests :
    /\ Len(calls[r]) = 6
    /\ Is429(calls[r][2]) /\ DictGet(calls[r][2].v, "retry_after", JNull) = JNum(3)
    /\ calls[r][3].d = 4
    /\ Is429(calls[r][4]) /\ ~HasKey(calls[r][4].v, "retry_after")
    /\ calls[r][5].d = 6
    /\ calls[r][6].op = "submit" /\ calls[r][6].code = 201
    /\ cl[r].pc = "poll"

\* the status a poll observed
HasStatus(e) == e.op = "poll" /\ e.json /\ IsDict(e.v) /\ HasKey(e.v, "status")
Status(e) == DictGet(e.v, "status", JNull)
Terminal(e) == HasStatus(e) /\ Status(e) \in {JStr("succeeded"), JStr("failed"), JStr("canceled")}
Pending(e) == HasStatus(e) /\ ~Terminal(e)

\* the text of a job's output: the string, or its fragments in order
TextOf(out) ==
  IF out.k = "absent" THEN <<>>
  ELSE IF Len(out.frags) = 2 THEN out.frags[1] \o out.frags[2]
  ELSE out.frags[1]

\* C9: the invocation returns only on a poll that observed succeeded, and
\* returns that poll's output; it raises ModelError only on a poll that
\* observed failed or canceled; a poll that observed any other status is
\* followed by a sleep of 1 and a poll of the same job; nothing follows a
\* poll that observed a terminal status; two polls are a sleep of 1 apart.
C9_Polling ==
  \A r \in Requests :
    LET log == calls[r] IN
      /\ cl[r].pc = "returned" =>
           /\ Len(log) > 0
           /\ HasStatus(log[Len(log)]) /\ Status(log[Len(log)]) = JStr("succeeded")
           /\ cl[r].ret = TextOf(log[Len(log)].out)
      /\ (cl[r].pc = "raised" /\ cl[r].exc = "ModelError") =>
           /\ Len(log) > 0
           /\ HasStatus(log[Len(log)])
           /\ Status(log[Len(log)]) \in {JStr("failed"), JStr("canceled")}
      /\ \A i \in 1..Len(log) :
           /\ Pending(log[i]) =>
                /\ i = Len(log) => cl[r].pc = "pollsleep"
                /\ i < Len(log) => (log[i + 1].op = "sleep" /\ log[i + 1].d = 1)
                /\ i + 1 = Len(log) => cl[r].pc = "poll"
                /\ i + 2 <= Len(log) =>
                     (log[i + 2].op = "poll" /\ log[i + 2].arg = log[i].arg)
           /\ Terminal(log[i]) =>
                /\ i = Len(log)
                /\ Status(log[i]) = JStr("succeeded") => cl[r].pc = "returned"
                /\ Status(log[i]) # JStr("succeeded") =>
                     (cl[r].pc = "raised" /\ cl[r].exc = "ModelError")
           /\ (log[i].op = "poll" /\ \E j \in 1..(i - 1) : log[j].op = "poll") =>
                (log[i - 1].op = "sleep" /\ log[i - 1].d = 1 /\ log[i - 2].op = "poll")

\* the router's call returned a text that came in fragments, after a poll
\* that observed processing and a poll that observed an unknown status
C9_Witness ==
  \E r \in Requests :
    /\ cl[r].pc = "returned"
    /\ Len(calls[r]) = 7
    /\ Status(calls[r][3]) = JStr("processing")
    /\ Status(calls[r][5]) = JStr("queued")
    /\ calls[r][7].out.k = "list"
    /\ cl[r].ret = json_dumps(RouteObj(JBool(TRUE), <<>>))

\* a provider call answered by an HTTP failure other than 429
HttpFailure(e) == e.op \in {"lookup", "submit", "poll"} /\ e.code >= 400 /\ e.code # 429

\* C10: a provider call (version lookup, submission, poll) answered by an
\* HTTP failure other than 429 is the last call of its invocation, and the
\* invocation ends there by raising: the call is not repeated, no other
\* call follows, the response is not read as a job status.  (The claim
\* names the exception UpstreamError; any exception is accepted here, so
\* that only a failure the client carries on from refutes it.)
C10_HttpFailureRaises ==
  \A r \in Requests :
    \A i \in 1..Len(calls[r]) :
      HttpFailure(calls[r][i]) =>
        /\ i = Len(calls[r])
        /\ cl[r].pc = "raised"

\* the errors of the prediction client: no credential, an HTTP failure, a
\* job that failed or was canceled
ClientLevelErrors == {"ConfigError", "UpstreamError", "ModelError"}

\* the keys of State the steps entered so far have written, given that each
\* but the last has returned
Written(seq) ==
  {"user_input"}
  \cup (IF Len(seq) > 1 THEN {"route"} ELSE {})
  \cup (IF Len(seq) > 2 THEN {"command"} ELSE {})

\* C11: when the client raises ConfigError, UpstreamError or ModelError
\* inside a step, the next thing the request does is fail with that error,
\* at that step: the state is left as the earlier steps wrote it and holds
\* no reply, no further step is entered, and no response record is built;
\* and a request that failed so does nothing but end, without a response.
C11_ClientErrorEndsRequest ==
  [][\A r \in Requests :
       /\ (cl[r].pc = "raised" /\ cl[r].exc \in ClientLevelErrors
            /\ <<pc[r], cl[r]>> # <<pc'[r], cl'[r]>>) =>
             /\ pc'[r] = "failed"
             /\ exc'[r] = cl[r].exc
             /\ ran'[r] = ran[r]
             /\ ran[r][Len(ran[r])] = pc[r]
             /\ state'[r] = state[r]
             /\ DOMAIN state[r] = Written(ran[r])
             /\ ~response'[r].set
       /\ (pc[r] = "failed" /\ exc[r] \in ClientLevelErrors
            /\ <<pc[r], cl[r]>> # <<pc'[r], cl'[r]>>) =>
             /\ pc'[r] = "done"
             /\ ran'[r] = <<>>
             /\ ~response[r].set /\ ~response'[r].set
             /\ "reply" \notin DOMAIN state[r]
    ]_vars

\* a request failed at the command step, after the router wrote its route,
\* because the job was reported failed
C11_Witness ==
  \E r \in Requests :
    /\ pc[r] = "failed"
    /\ exc[r] = "ModelError"
    /\ ran[r] = <<"router", "command">>
    /\ DOMAIN state[r] = {"user_input", "route"}

\* C12: with no API credential, every call of run_replicate_model raises
\* ConfigError before any request to the provider is made (no lookup, no
\* submission, no poll, no sleep), so a request gets no further than the
\* router step and fails there with only user_input in its state.
C12_NoTokenNoCalls ==
  \A r \in Requests :
    TOKEN = "" =>
      /\ calls[r] = <<>>
      /\ cl[r].pc \in {"none", "raised"}
      /\ cl[r].pc = "raised" => cl[r].exc = "ConfigError"
      /\ pc[r] \in {"idle", "router", "failed", "done"}
      /\ ninvoke[r] <= 1
      /\ pc[r] \in {"router", "failed"} => DOMAIN state[r] = {"user_input"}
      /\ pc[r] = "failed" =>
           /\ exc[r] = "ConfigError"
           /\ ran[r] = <<"router">>
           /\ ~response[r].set

\* a request failed at the router step for want of a credential
C12_Witness ==
  \E r \in Requests :
    /\ TOKEN = ""
    /\ pc[r] = "failed"
    /\ exc[r] = "ConfigError"
    /\ ninvoke[r] = 1

\* all that the program holds for request r
Own(r) == <<pc[r], state[r], cl[r], calls[r], response[r], exc[r], ran[r], raws[r], ninvoke[r]>>

\* the text run_replicate_model returned to node in request r, decoded as
\* the node decodes it
Decoded(r, node, fallback) ==
  IF json_loads(raws[r][node]).ok THEN json_loads(raws[r][node]).val ELSE fallback

\* the command a response is derived from, by the texts request r got
OwnCommand(r) ==
  IF "command" \in DOMAIN raws[r] THEN Decoded(r, "command", CommandFallback)
  ELSE JDict(<<>>, <<>>)

\* C13: with requests running side by side, their steps and provider calls
\* interleaved in any order, (1) a step that changes anything of one
\* request changes nothing of another; (2) every prompt a request submits
\* is built from its own user_input and its own command; (3) what a call
\* returns is the output of that request's own last poll; (4) route,
\* command and reply in a request's state are what its own calls
\* returned; (5) the response is derived from those alone.
C13_RequestsIndependent ==
  /\ [][\A r \in Threads : \A o \in Threads \ {r} :
          Own(r)' # Own(r) => Own(o)' = Own(o)]_vars
  /\ [](\A r \in Threads :
          /\ cl[r].pc # "none" =>
               /\ cl[r].prompt =
                    IF pc[r] = "answer"
                    THEN state[r].user_input \o
                         (IF "command" \in DOMAIN raws[r]
                          THEN <<WS("\n"), Word("[CommandTool]"), WS("\n")>>
                               \o json_dumps(OwnCommand(r)) \o <<WS("\n")>>
                          ELSE <<>>)
                    ELSE state[r].user_input
               /\ \A i \in 1..Len(calls[r]) :
                    calls[r][i].op = "submit" =>
                      calls[r][i].input.prompt = cl[r].prompt \o <<WS("\n")>>
          /\ cl[r].pc = "returned" => cl[r].ret = TextOf(calls[r][Len(calls[r])].out)
          /\ DOMAIN state[r] \ {"user_input"} =
               {k \in {"route", "command", "reply"} :
                  \E n \in DOMAIN raws[r] :
                    <<n, k>> \in {<<"router", "route">>, <<"command", "command">>, <<"answer", "reply">>}}
          /\ "route" \in DOMAIN state[r] => state[r].route = Decoded(r, "router", RouterFallback)
          /\ "command" \in DOMAIN state[r] => state[r].command = OwnCommand(r)
          /\ "reply" \in DOMAIN state[r] => state[r].reply = raws[r].answer
          /\ response[r].set =>
               /\ response[r].reply = raws[r].answer
               /\ response[r].generated_command =
                    DictGet(OwnCommand(r), "generated_command", JStr(""))
               /\ response[r].missing_fields =
                    DictGet(OwnCommand(r), "missing_fields", JList(<<>>))
               /\ response[r].tool_used =
                    (Truthy(DictGet(OwnCommand(r), "generated_command", JNull))
                     \/ Truthy(DictGet(OwnCommand(r), "missing_fields", JNull))))

\* two requests with different questions are in flight, one in its command
\* step and one in its answer step, each with a prompt submitted
C13_Witness ==
  \E r \in Threads : \E o \in Threads :
    /\ pc[r] = "command" /\ cl[r].pc = "poll"
    /\ pc[o] = "answer" /\ cl[o].pc = "poll"
    /\ state[r].user_input # state[o].user_input

\* C14: once the graph has left the router step with a decoded route
\* object, the step it entered next is command exactly when the object's
\* use_command_tool is the boolean true; with the field absent, or holding
\* a text or a number, the next step is answer.
C14_CommandIffTrue ==
  \A r \in Requests :
    ("route" \in DOMAIN state[r] /\ IsDict(state[r].route)) =>
      /\ pc[r] = "command" => DictGet(state[r].route, "use_command_tool", JNull) = JBool(TRUE)
      /\ pc[r] = "answer" =>
           (Runs(ran[r], "command") = 1
              <=> DictGet(state[r].route, "use_command_tool", JNull) = JBool(TRUE))

\* the submissions of the call so far were all answered 429
AllRetries(log) ==
  \A i \in 1..Len(log) : log[i].op = "submit" => log[i].code = RateLimited

\* C15: when the provider stops answering 429 and every job ends, every
\* call of run_replicate_model returns or raises and every request reaches
\* END or fails; and the client itself never gives up: as long as the
\* provider may still answer 429, one more 429 is followed by one more
\* wait and submission, and as long as it may still report a job as not
\* ended, one more such poll is followed by one more wait and poll, the
\* call not having returned.
C15_Termination ==
  /\ \A r \in Requests : (pc[r] = "router") ~> (pc[r] \in {"END", "failed"})
  /\ \A r \in Requests : (cl[r].pc = "lookup") ~> (cl[r].pc \in {"returned", "raised"})
  /\ [](\A r \in Requests :
          /\ (cl[r].pc = "submit" /\ Sleeps(calls[r]) < MaxSleeps) =>
               ENABLED (Submit(r) /\ cl'[r].pc = "backoff")
          /\ cl[r].pc = "backoff" => ENABLED (Backoff(r) /\ cl'[r].pc = "submit")
          /\ (cl[r].pc = "poll" /\ Sleeps(calls[r]) < MaxSleeps) =>
               ENABLED (Poll(r) /\ cl'[r].pc = "pollsleep")
          /\ cl[r].pc = "pollsleep" => ENABLED (PollSleep(r) /\ cl'[r].pc = "poll"))

\* as many 429 retries in a row as the provider may give, and the call is
\* about to submit once more
C15_Witness ==
  \E r \in Requests :
    /\ cl[r].pc = "submit"
    /\ Sleeps(calls[r]) = MaxSleeps
    /\ Len(calls[r]) = 1 + 2 * MaxSleeps
    /\ AllRetries(calls[r])

\* the keys of r's state that a step adds, removes or gives another value
Changed(r) ==
  {k \in DOMAIN state[r] \cup DOMAIN state'[r] :
     \/ k \notin DOMAIN state[r]
     \/ k \notin DOMAIN state'[r]
     \/ state[r][k] # state'[r][k]}

\* the field of State a step writes
KeyOf(node) ==
  CASE node = "router" -> "route"
    [] node = "command" -> "command"
    [] node = "answer" -> "reply"

\* C16: between the entry of a request and its end, the only steps that
\* change its state are the returns of router, command and answer, and
\* each adds exactly its own field (route, command, reply), which the
\* state did not hold before, and leaves every other field as it was: so
\* user_input is never changed, route and command are never rewritten,
\* and reply is written once, by answer, and is there at END.
C16_OwnFieldOnly ==
  [][\A r \in Requests :
       (pc[r] # "idle" /\ pc'[r] # "done") =>
         /\ Changed(r) # {} =>
              /\ pc[r] \in {"router", "command", "answer"}
              /\ cl[r].pc = "returned"
         /\ (pc[r] \in {"router", "command", "answer"} /\ cl[r].pc = "returned"
              /\ pc'[r] # pc[r]) =>
              /\ Changed(r) = {KeyOf(pc[r])}
              /\ KeyOf(pc[r]) \notin DOMAIN state[r]
              /\ KeyOf(pc[r]) \in DOMAIN state'[r]
         /\ pc'[r] = "END" => "reply" \in DOMAIN state'[r]
    ]_vars

\* a request that went through the three steps got its response from a
\* state holding the four fields
C16_Witness ==
  \E r \in Requests :
    /\ pc[r] = "responded"
    /\ DOMAIN state[r] = {"user_input", "route", "command", "reply"}
    /\ state[r].reply # <<>>

\* C17 as claimed: a request whose graph run reached END has made one, two
\* or three invocations, each of these counts occurs, and the router's
\* decision fixes which.  The least of them, one, can only be the count of
\* the requests the decision sends past the command step, the others
\* making at least one invocation more.
C17_OneToThree ==
  \A r \in Requests :
    AtEnd(r) =>
      /\ ninvoke[r] \in 1..3
      /\ Runs(ran[r], "command") = 0 => ninvoke[r] = 1

\* C17 as amended: a request whose graph run reached END has made two
\* invocations (router, answer) when the route decision did not select the
\* command step and three (router, command, answer) when it did; none has
\* made one, and the count is the number of steps entered.
C17_TwoOrThree ==
  \A r \in Requests :
    AtEnd(r) =>
      /\ ninvoke[r] = Len(ran[r])
      /\ ninvoke[r] \in {2, 3}
      /\ ninvoke[r] = 3 <=> Branch(state[r].route) = "command"
      /\ ninvoke[r] = 2 <=> Branch(state[r].route) = "answer"

\* a request sent straight to answer is at END after two invocations
C17_Witness ==
  \E r \in Requests :
    /\ pc[r] = "END"
    /\ ninvoke[r] = 2
    /\ Branch(state[r].route) = "answer"

\* the version id a lookup response gives, the job id a submission
\* response gives
VersionIn(e) == DictGet(DictGet(e.v, "latest_version", JNull), "id", JNull).s
JobIn(e) == DictGet(e.v, "id", JNull).s

\* a submission the provider accepted
Accepted(e) == e.op = "submit" /\ e.code < 400

\* C18: in the calls of one invocation the first call, and no other, is the
\* version lookup; every submission comes after it and carries, as version,
\* the id that lookup returned, also after 429 retries; every poll comes
\* after a submission the provider accepted, which is the last submission,
\* and asks for the job id that submission returned; the client submits
\* only after a successful lookup and polls only after an accepted
\* submission.
C18_CallOrder ==
  \A r \in Requests :
    LET log == calls[r]
        n == Len(log)
        vid == VersionIn(log[1])
        submits == {i \in 1..n : log[i].op = "submit"}
        polls == {i \in 1..n : log[i].op = "poll"}
    IN
      /\ \A i \in 1..n : log[i].op = "lookup" <=> i = 1
      /\ submits # {} =>
           /\ log[1].code < 400
           /\ \A i \in submits :
                /\ log[i].arg = vid
                /\ log[i].input.version = vid
                /\ \A j \in submits : j < i => Is429(log[j])
      /\ polls # {} =>
           \E j \in submits :
             /\ j >= 2
             /\ Accepted(log[j])
             /\ \A i \in polls : j < i /\ log[i].arg = JobIn(log[j])
             /\ \A m \in (j + 1)..n : log[m].op \in {"poll", "sleep"}
      /\ cl[r].pc \in {"submit", "backoff"} =>
           (n > 0 /\ log[1].code < 400 /\ cl[r].vid = vid /\ polls = {})
      /\ cl[r].pc \in {"poll", "pollsleep"} =>
           \E j \in submits : j >= 2 /\ Accepted(log[j]) /\ cl[r].pid = JobIn(log[j])

\* a call looked up version v2, was answered 429, waited, submitted v2
\* again, was accepted, and polls the job a second time
C18_Witness ==
  \E r \in Requests :
    /\ Len(calls[r]) = 7
    /\ VersionIn(calls[r][1]) = "v2"
    /\ Is429(calls[r][2])
    /\ Accepted(calls[r][4]) /\ calls[r][4].input.version = "v2"
    /\ calls[r][5].op = "poll" /\ calls[r][7].op = "poll"
    /\ calls[r][7].arg = JobIn(calls[r][4])
=============================================================================
